---- MODULE Spec2Model ----
(***************************************************************************)
(* `mc config host' (cmd/config-host-main.go): add, remove and list the    *)
(* host entries of the persisted client configuration.                     *)
(*                                                                         *)
(* Strings are TLA+ strings handled byte by byte (Len, SubSeq, \o); the    *)
(* model's inputs are ASCII, so a byte is a rune.  One invocation of the   *)
(* command is one process; its steps are split at the calls that touch     *)
(* the configuration file (load, save) and at the point it prints.         *)
(***************************************************************************)
EXTENDS Integers, Sequences, FiniteSets, TLC

\* Invocations that may run side by side (only SpecConc runs the second one).
Procs == {1, 2}

\* How many aliases of AliasPool the command lines draw from.
NumAliases == 2

AliasPool == <<"b", "abc", "Ba", "a-c">>

\* An alias that only a document written before the session holds.
PresetAlias == "ab"

Aliases == {AliasPool[i] : i \in 1..NumAliases}

-----------------------------------------------------------------------------
(* Strings *)

\* The characters of the model in ascending byte order.
Alphabet == " +-./0123456789:ABCDEFGHIJKLMNOPQRSTUVWXYZ_abcdefghijklmnopqrstuvwxyz~"

CharAt(s, i) == SubSeq(s, i, i)

CharSet(s) == {CharAt(s, i) : i \in 1..Len(s)}

Ord(c) == CHOOSE i \in 1..Len(Alphabet) : CharAt(Alphabet, i) = c

Min(a, b) == IF a < b THEN a ELSE b

\* Go's s < t on strings: bytewise lexicographic.
StringLess(s, t) ==
    \E i \in 1..(Min(Len(s), Len(t)) + 1) :
        /\ SubSeq(s, 1, i - 1) = SubSeq(t, 1, i - 1)
        /\ \/ i > Len(s) /\ i <= Len(t)
           \/ /\ i <= Len(s)
              /\ i <= Len(t)
              /\ Ord(CharAt(s, i)) < Ord(CharAt(t, i))

RECURSIVE TrimLeft(_)
TrimLeft(s) == IF Len(s) > 0 /\ Head(s) = " " THEN TrimLeft(Tail(s)) ELSE s

RECURSIVE TrimRight(_)
TrimRight(s) ==
    IF Len(s) > 0 /\ CharAt(s, Len(s)) = " "
    THEN TrimRight(SubSeq(s, 1, Len(s) - 1))
    ELSE s

\* strings.TrimSpace
TrimSpace(s) == TrimRight(TrimLeft(s))

RECURSIVE Spaces(_)
Spaces(n) == IF n <= 0 THEN "" ELSE " " \o Spaces(n - 1)

\* fmt.Sprintf("%-*.*s", width, prec, s): cut to prec characters, then pad
\* with spaces on the right up to width.
SprintfPadLeft(width, prec, s) ==
    LET t == IF Len(s) > prec THEN SubSeq(s, 1, prec) ELSE s
    IN  Spaces(width - Len(t)) \o t

SprintfPad(width, prec, s) ==
    LET t == IF Len(s) > prec THEN SubSeq(s, 1, prec) ELSE s
    IN  t \o Spaces(width - Len(t))

-----------------------------------------------------------------------------
(* Command line (cli.Args) *)

ArgsPresent(a) == Len(a) # 0

ArgsGet(a, n) == IF n + 1 <= Len(a) THEN a[n + 1] ELSE ""

ArgsFirst(a) == ArgsGet(a, 0)

ArgsTail(a) == IF Len(a) >= 2 THEN SubSeq(a, 2, Len(a)) ELSE <<>>

-----------------------------------------------------------------------------
(* Validators *)

AliasChars == CharSet("-0123456789ABCDEFGHIJKLMNOPQRSTUVWXYZ_abcdefghijklmnopqrstuvwxyz")

KeyChars == CharSet("+-./0123456789ABCDEFGHIJKLMNOPQRSTUVWXYZ_abcdefghijklmnopqrstuvwxyz~")

HostChars == CharSet("-.0123456789:ABCDEFGHIJKLMNOPQRSTUVWXYZabcdefghijklmnopqrstuvwxyz")

HasPrefix(s, pre) == Len(s) >= Len(pre) /\ SubSeq(s, 1, Len(pre)) = pre

isValidAlias(s) == Len(s) > 0 /\ CharSet(s) \subseteq AliasChars

isValidHostURL(s) ==
    \E scheme \in {"http://", "https://"} :
        /\ HasPrefix(s, scheme)
        /\ Len(s) > Len(scheme)
        /\ CharSet(SubSeq(s, Len(scheme) + 1, Len(s))) \subseteq HostChars

isValidAccessKey(s) == CharSet(s) \subseteq KeyChars

isValidSecretKey(s) == CharSet(s) \subseteq KeyChars

isValidAPI(s) == s \in {"S3v4", "S3v2"}

-----------------------------------------------------------------------------
(* checkConfigHostSyntax and what it calls.  Each returns the message the  *)
(* process dies with, or "" when the arguments pass.                       *)

\* The API test of checkConfigHostAddSyntax.
apiRejectedNever(api) == FALSE

apiRejected(api) == api # "" /\ ~isValidAPI(api)

checkConfigHostAddSyntaxNoFields(a) ==
    LET tailArgs == ArgsTail(a)
    IN  IF Len(tailArgs) < 4 \/ Len(tailArgs) > 5
        THEN "Incorrect number of arguments for host add command."
        ELSE ""

checkConfigHostAddSyntax(a) ==
    LET tailArgs    == ArgsTail(a)
        tailsArgsNr == Len(tailArgs)
        alias       == ArgsGet(tailArgs, 0)
        url         == ArgsGet(tailArgs, 1)
        accessKey   == ArgsGet(tailArgs, 2)
        secretKey   == ArgsGet(tailArgs, 3)
        api         == ArgsGet(tailArgs, 4)
    IN  IF tailsArgsNr < 4 \/ tailsArgsNr > 5
        THEN "Incorrect number of arguments for host add command."
        ELSE IF ~isValidAlias(alias) THEN "Invalid alias."
        ELSE IF ~isValidHostURL(url) THEN "Invalid URL."
        ELSE IF ~isValidAccessKey(accessKey) THEN "Invalid access key."
        ELSE IF ~isValidSecretKey(secretKey) THEN "Invalid secret key."
        ELSE IF apiRejected(api) THEN "Unrecognized API signature."
        ELSE ""

checkConfigHostRemoveSyntax(a) ==
    LET tailArgs == ArgsTail(a)
    IN  IF Len(tailArgs) # 1
        THEN "Incorrect number of arguments for remove host command."
        ELSE IF ~isValidAlias(ArgsGet(tailArgs, 0)) THEN "Invalid alias."
        ELSE ""

checkConfigHostSyntax(a) ==
    IF ~ArgsPresent(a) THEN "help"
    ELSE CASE TrimSpace(ArgsFirst(a)) = "add"    -> checkConfigHostAddSyntax(a)
           [] TrimSpace(ArgsFirst(a)) = "remove" -> checkConfigHostRemoveSyntax(a)
           [] TrimSpace(ArgsFirst(a)) = "list"   -> ""
           [] OTHER                              -> "help"

-----------------------------------------------------------------------------
(* The configuration document and the host operations on it *)

globalMCConfigVersion == "8"

NoHosts == [a \in {} |-> ""]

\* The zero value of the in-memory configuration.
NoConf == [Version |-> "", Hosts |-> NoHosts]

hostConfigV8(url, accessKey, secretKey, api) ==
    [URL |-> url, AccessKey |-> accessKey, SecretKey |-> secretKey, API |-> api]

hostMessage(op, alias, url, accessKey, secretKey, api) ==
    [op |-> op, Alias |-> alias, URL |-> url, AccessKey |-> accessKey,
     SecretKey |-> secretKey, API |-> api]

\* mainConfigHost, case "add": the record built from the command line.
hostCfgOfArgsNoDefault(a) ==
    LET t == ArgsTail(a)
    IN  hostConfigV8(ArgsGet(t, 1), ArgsGet(t, 2), ArgsGet(t, 3), ArgsGet(t, 4))

hostCfgOfArgs(a) ==
    LET t   == ArgsTail(a)
        api == ArgsGet(t, 4)
    IN  hostConfigV8(ArgsGet(t, 1), ArgsGet(t, 2), ArgsGet(t, 3),
                     IF api = "" THEN "S3v4" ELSE api)

aliasOfArgs(a) == ArgsGet(ArgsTail(a), 0)

\* addHost: mcCfgV8.Hosts[alias] = hostCfgV8
addHostDocOnlyNew(c, alias, hostCfg) ==
    [c EXCEPT !.Hosts = (alias :> hostCfg)]

addHostDoc(c, alias, hostCfg) ==
    [c EXCEPT !.Hosts =
        [k \in DOMAIN c.Hosts \cup {alias} |->
            IF k = alias THEN hostCfg ELSE c.Hosts[k]]]

\* removeHost: delete(conf.Hosts, alias)
removeHostDocAll(c, alias) == [c EXCEPT !.Hosts = NoHosts]

removeHostDoc(c, alias) ==
    [c EXCEPT !.Hosts = [k \in DOMAIN c.Hosts \ {alias} |-> c.Hosts[k]]]

\* byAlias.Less
byAliasLessByLen(x, y) == Len(x.Alias) < Len(y.Alias)

byAliasLess(x, y) == StringLess(x.Alias, y.Alias)

\* sort.Sort(byAlias(hosts)): the permutation of hosts that Less orders.
RECURSIVE Insert(_, _)
Insert(sorted, x) ==
    IF sorted = <<>> THEN <<x>>
    ELSE IF byAliasLess(x, Head(sorted)) THEN <<x>> \o sorted
    ELSE <<Head(sorted)>> \o Insert(Tail(sorted), x)

RECURSIVE SortByAlias(_)
SortByAlias(hosts) ==
    IF hosts = <<>> THEN <<>>
    ELSE Insert(SortByAlias(SubSeq(hosts, 1, Len(hosts) - 1)), hosts[Len(hosts)])

\* listHosts, first loop: the length of the longest key, over one iteration
\* order of the map.
RECURSIVE maxAliasOf(_)
maxAliasOf(keys) ==
    IF keys = <<>> THEN 0
    ELSE LET m == maxAliasOf(Tail(keys))
         IN  IF Len(Head(keys)) > m THEN Len(Head(keys)) ELSE m

\* The orders in which a range over a map may visit its keys.
RangeOrders(h) ==
    {f \in [1..Cardinality(DOMAIN h) -> DOMAIN h] :
        \A i, j \in 1..Cardinality(DOMAIN h) : i # j => f[i] # f[j]}

\* listHosts, second loop: one message per entry, in iteration order.
listMessages(h, order) ==
    [i \in 1..Len(order) |->
        hostMessage("list", order[i], h[order[i]].URL, h[order[i]].AccessKey,
                    h[order[i]].SecretKey, h[order[i]].API)]

\* listHosts, last loop: the alias of each message padded to maxAlias.
listDisplay(hosts, maxAlias) ==
    LET sorted == SortByAlias(hosts)
    IN  [i \in 1..Len(sorted) |->
            [sorted[i] EXCEPT !.Alias = SprintfPad(maxAlias, maxAlias, sorted[i].Alias)]]

-----------------------------------------------------------------------------
(* Inputs *)

GoodAccessKey == "AKIAEXAMPLE"

GoodSecretKey == "SECRET/EXAMPLE+1"

\* Well-formed `add' command lines: API omitted, empty, or a valid name; the
\* verb as typed or with blanks around it.
GoodAddArgs ==
    {<<"add", a, "https://s3.amazonaws.com", GoodAccessKey, GoodSecretKey>> \o api :
        a \in Aliases, api \in {<<>>, <<"">>, <<"S3v4">>}}
    \cup {<<"add", a, "http://play.minio.io:9000", GoodSecretKey, GoodAccessKey, "S3v2">> :
            a \in Aliases}
    \cup {<<" add ", AliasPool[1], "https://s3.amazonaws.com", "", "">>}

BadAddArgs ==
    {<<"add", a, "https://s3.amazonaws.com", GoodAccessKey, GoodSecretKey, "S3v3">> :
        a \in Aliases}
    \cup {<<"add", a, "https://s3.amazonaws.com", GoodAccessKey, GoodSecretKey>> :
            a \in {"", "a/b"}}
    \cup {<<"add", AliasPool[1], u, GoodAccessKey, GoodSecretKey>> :
            u \in {"s3.amazonaws.com", "ftp://s3.amazonaws.com", "https://"}}
    \cup {<<"add", AliasPool[1], "https://s3.amazonaws.com", "bad key", GoodSecretKey>>,
          <<"add", AliasPool[1], "https://s3.amazonaws.com", GoodAccessKey, "bad secret">>,
          <<"add", "a b", "nourl", "bad key", "bad secret", "S3v3">>,
          <<"add">>,
          <<"add", AliasPool[1], "https://s3.amazonaws.com", GoodAccessKey>>,
          <<"add", AliasPool[1], "https://s3.amazonaws.com", GoodAccessKey,
            GoodSecretKey, "S3v4", "extra">>}

GoodRemoveArgs == {<<"remove", a>> : a \in Aliases} \cup {<<"remove ", AliasPool[1]>>}

BadRemoveArgs ==
    {<<"remove">>, <<"remove", AliasPool[1], AliasPool[2]>>,
     <<"remove", "">>, <<"remove", "a/b">>}

ListArgs == {<<"list">>, <<" list">>, <<"list", "extra">>}

BadVerbArgs == {<<>>, <<"">>, <<"ls">>, <<"Add", AliasPool[1]>>}

ArgLists ==
    GoodAddArgs \cup BadAddArgs \cup GoodRemoveArgs \cup BadRemoveArgs
    \cup ListArgs \cup BadVerbArgs

\* The documents a fresh installation may hold.
InitialDocs ==
    {[Version |-> globalMCConfigVersion, Hosts |-> NoHosts],
     [Version |-> globalMCConfigVersion,
      Hosts   |-> [k \in {PresetAlias} |->
                     hostConfigV8("https://play.minio.io:9000", "", "", "S3v4")]]}

-----------------------------------------------------------------------------
(* State *)

VARIABLES
    disk,       \* the configuration file: [intact, doc]
    pc,         \* pc[p]: where invocation p stands
    args,       \* args[p]: its command line after `mc config host'
    conf,       \* conf[p]: its in-memory configuration (mcCfgV8 / conf)
    out,        \* out[p]: the messages it has handed to printMsg
    calls,      \* the loadMcConfig / saveMcConfig calls of the invocations that
                \* have not exited yet, in the order made: [proc, fn, ok]
    exitCode,   \* exitCode[p]: its exit status once it has ended
    before,     \* before[p]: the configuration file when it started
    prev        \* prev[p]: the invocation that ended with status 0 right before it

vars == <<disk, pc, args, conf, out, calls, exitCode, before, prev>>

Ended == {"done", "exited"}

NoPrev == [args |-> <<>>, before |-> [intact |-> TRUE, doc |-> NoConf]]

Init ==
    /\ disk \in {[intact |-> TRUE, doc |-> d] : d \in InitialDocs}
    /\ pc = [p \in Procs |-> "idle"]
    /\ args = [p \in Procs |-> <<>>]
    /\ conf = [p \in Procs |-> NoConf]
    /\ out = [p \in Procs |-> <<>>]
    /\ calls = <<>>
    /\ exitCode = [p \in Procs |-> 0]
    /\ before = [p \in Procs |-> disk]
    /\ prev = [p \in Procs |-> NoPrev]

-----------------------------------------------------------------------------
(* Collaborators: fatalIf, printMsg, loadMcConfig, saveMcConfig *)

\* fatalIf with an error, and cli.ShowCommandHelpAndExit(ctx, "host", 1):
\* the process ends with status 1.
fatalExit(p) ==
    /\ pc' = [pc EXCEPT ![p] = "exited"]
    /\ exitCode' = [exitCode EXCEPT ![p] = 1]

printMsg(p, msgs) == out' = [out EXCEPT ![p] = out[p] \o msgs]

Called(p, fn, ok) == calls' = Append(calls, [proc |-> p, fn |-> fn, ok |-> ok])

IsCallOf(c, p) == c.proc = p

callsOf(p) == SelectSeq(calls, LAMBDA c : IsCallOf(c, p))

\* loadMcConfig followed by fatalIf: the document of an intact file, or an
\* error (a damaged file cannot be parsed; any file may fail to be read).
loadMcConfig(p, next) ==
    \/ /\ disk.intact
       /\ conf' = [conf EXCEPT ![p] = disk.doc]
       /\ Called(p, "load", TRUE)
       /\ pc' = [pc EXCEPT ![p] = next]
       /\ UNCHANGED <<disk, args, out, exitCode, before, prev>>
    \/ /\ Called(p, "load", FALSE)
       /\ fatalExit(p)
       /\ UNCHANGED <<disk, args, conf, out, before, prev>>

\* saveMcConfig followed by fatalIf: the whole document replaces the file, or
\* an error, which leaves the file as it was or damaged by the partial write.
saveMcConfig(p, doc, next) ==
    /\ conf' = [conf EXCEPT ![p] = doc]
    /\ \/ /\ disk' = [intact |-> TRUE, doc |-> doc]
          /\ Called(p, "save", TRUE)
          /\ pc' = [pc EXCEPT ![p] = next]
          /\ UNCHANGED <<args, out, exitCode, before, prev>>
       \/ /\ disk' \in {disk, [disk EXCEPT !.intact = FALSE]}
          /\ Called(p, "save", FALSE)
          /\ fatalExit(p)
          /\ UNCHANGED <<args, out, before, prev>>

finish(p) ==
    /\ pc' = [pc EXCEPT ![p] = "done"]
    /\ exitCode' = [exitCode EXCEPT ![p] = 0]

-----------------------------------------------------------------------------
(* Actions *)

\* mainConfigHost up to the dispatch: a new invocation with command line a.
mainConfigHost(p, a) ==
    /\ pc[p] = "idle"
    /\ args' = [args EXCEPT ![p] = a]
    /\ conf' = [conf EXCEPT ![p] = NoConf]
    /\ out' = [out EXCEPT ![p] = <<>>]
    /\ before' = [before EXCEPT ![p] = disk]
    /\ IF checkConfigHostSyntax(a) # ""
       THEN fatalExit(p)
       ELSE /\ pc' = [pc EXCEPT ![p] =
                        CASE TrimSpace(ArgsFirst(a)) = "add"    -> "addHost"
                          [] TrimSpace(ArgsFirst(a)) = "remove" -> "removeHost"
                          [] TrimSpace(ArgsFirst(a)) = "list"   -> "listHosts"]
            /\ exitCode' = [exitCode EXCEPT ![p] = 0]
    /\ UNCHANGED <<disk, calls, prev>>

\* The process is gone and the shell is back at its prompt: nothing of the
\* invocation is left but what it wrote to the file.
processExit(p) ==
    /\ pc[p] \in Ended
    /\ pc' = [pc EXCEPT ![p] = "idle"]
    /\ prev' = [prev EXCEPT ![p] =
                  IF pc[p] = "done"
                  THEN [args |-> args[p], before |-> before[p]]
                  ELSE NoPrev]
    /\ args' = [args EXCEPT ![p] = <<>>]
    /\ conf' = [conf EXCEPT ![p] = NoConf]
    /\ out' = [out EXCEPT ![p] = <<>>]
    /\ calls' = SelectSeq(calls, LAMBDA c : ~IsCallOf(c, p))
    /\ exitCode' = [exitCode EXCEPT ![p] = 0]
    /\ before' = [before EXCEPT ![p] = disk]
    /\ UNCHANGED disk

addHostLoad(p) ==
    /\ pc[p] = "addHost"
    /\ loadMcConfig(p, "addHostSave")

\* Faulty variants of addHostSave: one goes on after a failed save, one
\* re-reads the file while it saves.
addHostSaveIgnoringError(p) ==
    /\ pc[p] = "addHostSave"
    /\ conf' = [conf EXCEPT ![p] =
                  addHostDoc(conf[p], aliasOfArgs(args[p]), hostCfgOfArgs(args[p]))]
    /\ \/ /\ disk' = [intact |-> TRUE, doc |-> conf'[p]]
          /\ Called(p, "save", TRUE)
       \/ /\ disk' \in {disk, [disk EXCEPT !.intact = FALSE]}
          /\ Called(p, "save", FALSE)
    /\ pc' = [pc EXCEPT ![p] = "addHostPrint"]
    /\ UNCHANGED <<args, out, exitCode, before, prev>>

addHostSaveLocked(p) ==
    /\ pc[p] = "addHostSave"
    /\ saveMcConfig(p, addHostDoc(disk.doc, aliasOfArgs(args[p]), hostCfgOfArgs(args[p])),
                    "addHostPrint")

addHostSave(p) ==
    /\ pc[p] = "addHostSave"
    /\ saveMcConfig(p, addHostDoc(conf[p], aliasOfArgs(args[p]), hostCfgOfArgs(args[p])),
                    "addHostPrint")

addHostPrint(p) ==
    /\ pc[p] = "addHostPrint"
    /\ LET c == hostCfgOfArgs(args[p])
       IN  printMsg(p, <<hostMessage("add", aliasOfArgs(args[p]), c.URL, c.AccessKey,
                                      c.SecretKey, c.API)>>)
    /\ finish(p)
    /\ UNCHANGED <<disk, args, conf, calls, before, prev>>

removeHostLoad(p) ==
    /\ pc[p] = "removeHost"
    /\ loadMcConfig(p, "removeHostSave")

removeHostSave(p) ==
    /\ pc[p] = "removeHostSave"
    /\ saveMcConfig(p, removeHostDoc(conf[p], aliasOfArgs(args[p])), "removeHostPrint")

removeHostPrint(p) ==
    /\ pc[p] = "removeHostPrint"
    /\ printMsg(p, <<hostMessage("remove", aliasOfArgs(args[p]), "", "", "", "")>>)
    /\ finish(p)
    /\ UNCHANGED <<disk, args, conf, calls, before, prev>>

listHostsLoad(p) ==
    /\ pc[p] = "listHosts"
    /\ loadMcConfig(p, "listHostsPrint")

\* Faulty variant of listHostsPrint: it writes the document back.
listHostsPrintThenSave(p) ==
    /\ pc[p] = "listHostsPrint"
    /\ \E o \in RangeOrders(conf[p].Hosts) :
          printMsg(p, listDisplay(listMessages(conf[p].Hosts, o), maxAliasOf(o)))
    /\ disk' = [intact |-> TRUE, doc |-> conf[p]]
    /\ Called(p, "save", TRUE)
    /\ finish(p)
    /\ UNCHANGED <<args, conf, before, prev>>

listHostsPrint(p) ==
    /\ pc[p] = "listHostsPrint"
    /\ \E maxAlias \in {maxAliasOf(o) : o \in RangeOrders(conf[p].Hosts)} :
       \E o \in RangeOrders(conf[p].Hosts) :
          printMsg(p, listDisplay(listMessages(conf[p].Hosts, o), maxAlias))
    /\ finish(p)
    /\ UNCHANGED <<disk, args, conf, calls, before, prev>>

Step(p) ==
    \/ addHostLoad(p)
    \/ addHostSave(p)
    \/ addHostPrint(p)
    \/ removeHostLoad(p)
    \/ removeHostSave(p)
    \/ removeHostPrint(p)
    \/ listHostsLoad(p)
    \/ listHostsPrint(p)

\* One invocation after another, each run to its end: process 1 alone.
Next ==
    \/ \E a \in ArgLists : mainConfigHost(1, a)
    \/ Step(1)
    \/ processExit(1)

Spec == Init /\ [][Next]_vars

\* Two invocations against the same file, one command line each, their steps
\* interleaved at will: nothing in the code orders them.
ConcArgLists == GoodAddArgs \cup GoodRemoveArgs \cup ListArgs

NextConc ==
    \E p \in Procs :
        \/ \E a \in ConcArgLists : mainConfigHost(p, a)
        \/ Step(p)

SpecConc == Init /\ [][NextConc]_vars

-----------------------------------------------------------------------------
(* Vocabulary of the properties *)

verbOf(a) == TrimSpace(ArgsFirst(a))

\* The length of the longest key of h (0 when h is empty).
LongestAlias(h) ==
    IF DOMAIN h = {} THEN 0
    ELSE CHOOSE n \in {Len(k) : k \in DOMAIN h} : \A k \in DOMAIN h : Len(k) <= n

\* Invocation p is a `list' that has printed, right after an `add' that
\* ended with status 0.
ListAfterAdd(p) ==
    /\ pc[p] = "done"
    /\ verbOf(args[p]) = "list"
    /\ verbOf(prev[p].args) = "add"

\* The positions of p's output whose alias is s.
EntriesWithAlias(p, s) == {i \in 1..Len(out[p]) : out[p][i].Alias = s}

\* The API an `add' command line asks for.
ExpectedAPI(a) ==
    IF Len(ArgsTail(a)) < 5 \/ ArgsTail(a)[5] = "" THEN "S3v4" ELSE ArgsTail(a)[5]

EntryMatchesAdd(m, a) ==
    /\ m.URL = ArgsTail(a)[2]
    /\ m.AccessKey = ArgsTail(a)[3]
    /\ m.SecretKey = ArgsTail(a)[4]
    /\ m.API = ExpectedAPI(a)

-----------------------------------------------------------------------------
(* C1 *)

\* C1 as stated: after a successful add, list prints exactly one entry whose
\* alias is the alias given to add, and its URL, access key, secret key and
\* API (defaulted to "S3v4") are the ones given.
C1_AddThenListExact ==
    \A p \in Procs :
        ListAfterAdd(p) =>
            LET a == prev[p].args
                e == EntriesWithAlias(p, aliasOfArgs(a))
            IN  /\ Cardinality(e) = 1
                /\ \A i \in e : EntryMatchesAdd(out[p][i], a)

\* C1 amended: after a successful add, list prints exactly one entry for the
\* alias given to add: its alias is the given alias followed by spaces up to
\* the length of the longest alias of the document, and its URL, access key,
\* secret key and API (defaulted to "S3v4") are the ones given; this is so
\* whether or not the document held the alias before the add.
C1_AddThenListPadded ==
    \A p \in Procs :
        ListAfterAdd(p) =>
            LET a     == prev[p].args
                alias == aliasOfArgs(a)
                w     == LongestAlias(conf[p].Hosts)
                e     == EntriesWithAlias(p, alias \o Spaces(w - Len(alias)))
            IN  /\ Cardinality(e) = 1
                /\ \A i \in e : EntryMatchesAdd(out[p][i], a)
                /\ \A i \in 1..Len(out[p]) :
                      TrimRight(out[p][i].Alias) = alias => i \in e

\* An add that overwrote a different record of its alias, with the API left
\* out, then a list of a document holding a longer alias.
C1_Witness ==
    \E p \in Procs :
        /\ ListAfterAdd(p)
        /\ Len(ArgsTail(prev[p].args)) = 4
        /\ aliasOfArgs(prev[p].args) \in DOMAIN prev[p].before.doc.Hosts
        /\ prev[p].before.doc.Hosts[aliasOfArgs(prev[p].args)].API = "S3v2"
        /\ Len(aliasOfArgs(prev[p].args)) < LongestAlias(conf[p].Hosts)

-----------------------------------------------------------------------------
(* C2 *)

\* Invocation p removes a well-formed alias that the intact file did not
\* hold when p started.
RemovesAbsent(p) ==
    /\ pc[p] # "idle"
    /\ verbOf(args[p]) = "remove"
    /\ Len(ArgsTail(args[p])) = 1
    /\ isValidAlias(aliasOfArgs(args[p]))
    /\ before[p].intact
    /\ aliasOfArgs(args[p]) \notin DOMAIN before[p].doc.Hosts

AllCallsOk(p) == \A i \in 1..Len(callsOf(p)) : callsOf(p)[i].ok

\* C2: removing a well-formed alias that is not in Hosts is no error: the
\* invocation stops early only when the load or the save itself fails,
\* otherwise it ends with status 0 after printing the one "removed" message,
\* and the file it leaves equals the file it found.
C2_RemoveAbsentIsNoOp ==
    \A p \in Procs :
        RemovesAbsent(p) =>
            /\ pc[p] = "exited" => ~AllCallsOk(p)
            /\ AllCallsOk(p) => disk = before[p]
            /\ pc[p] = "done" =>
                  /\ exitCode[p] = 0
                  /\ out[p] = <<hostMessage("remove", aliasOfArgs(args[p]), "", "", "", "")>>
                  /\ disk = before[p]

\* A finished remove of an absent alias from a document that holds others.
C2_Witness ==
    \E p \in Procs :
        /\ RemovesAbsent(p)
        /\ pc[p] = "done"
        /\ Cardinality(DOMAIN before[p].doc.Hosts) = 2

-----------------------------------------------------------------------------
(* C3 *)

ListDone(p) == pc[p] = "done" /\ verbOf(args[p]) = "list"

\* C3: list prints one message per entry of Hosts (each key once, none
\* else), in strictly ascending bytewise order of alias.
C3_ListSortedOnePerEntry ==
    \A p \in Procs :
        ListDone(p) =>
            /\ Len(out[p]) = Cardinality(DOMAIN conf[p].Hosts)
            /\ \A k \in DOMAIN conf[p].Hosts :
                  Cardinality({i \in 1..Len(out[p]) : TrimRight(out[p][i].Alias) = k}) = 1
            /\ \A i, j \in 1..Len(out[p]) :
                  i < j => /\ StringLess(out[p][i].Alias, out[p][j].Alias)
                           /\ StringLess(TrimRight(out[p][i].Alias),
                                         TrimRight(out[p][j].Alias))

\* A list of three entries, the last one added being neither the shortest
\* nor the last in order.
C3_Witness ==
    \E p \in Procs :
        /\ ListDone(p)
        /\ Len(out[p]) = 3
        /\ verbOf(prev[p].args) = "add"
        /\ aliasOfArgs(prev[p].args) = "abc"
        /\ "abc" \notin DOMAIN prev[p].before.doc.Hosts
        /\ "b" \in DOMAIN prev[p].before.doc.Hosts

-----------------------------------------------------------------------------
(* C4 *)

\* C4: every alias list prints is as long as the longest alias of the
\* listed entries: it is a stored alias, whole, followed by spaces only.
C4_AliasColumnWidth ==
    \A p \in Procs :
        ListDone(p) =>
            LET w == LongestAlias(conf[p].Hosts)
            IN  \A i \in 1..Len(out[p]) :
                    /\ Len(out[p][i].Alias) = w
                    /\ \E k \in DOMAIN conf[p].Hosts :
                          /\ SubSeq(out[p][i].Alias, 1, Len(k)) = k
                          /\ SubSeq(out[p][i].Alias, Len(k) + 1, w) = Spaces(w - Len(k))
                          /\ out[p][i].URL = conf[p].Hosts[k].URL

\* A list whose entries have aliases of three different lengths.
C4_Witness ==
    \E p \in Procs :
        /\ ListDone(p)
        /\ Cardinality({Len(k) : k \in DOMAIN conf[p].Hosts}) = 3
        /\ \E i \in 1..Len(out[p]) : TrimRight(out[p][i].Alias) # out[p][i].Alias

-----------------------------------------------------------------------------
(* C5 *)

AddWithBadAPI(p) ==
    /\ pc[p] # "idle"
    /\ verbOf(args[p]) = "add"
    /\ Len(ArgsTail(args[p])) >= 5
    /\ ArgsTail(args[p])[5] \notin {"", "S3v4", "S3v2"}

AddWithoutAPI(p) ==
    /\ pc[p] # "idle"
    /\ verbOf(args[p]) = "add"
    /\ Len(ArgsTail(args[p])) \in {4, 5}
    /\ isValidAlias(ArgsTail(args[p])[1])
    /\ isValidHostURL(ArgsTail(args[p])[2])
    /\ isValidAccessKey(ArgsTail(args[p])[3])
    /\ isValidSecretKey(ArgsTail(args[p])[4])
    /\ Len(ArgsTail(args[p])) = 5 => ArgsTail(args[p])[5] = ""

\* C5: an add whose API is given, not empty, and neither "S3v4" nor "S3v2"
\* ends with a non-zero status before any load or save, the file untouched;
\* an add with the API left out or empty, its other arguments well formed,
\* is not stopped before the load.
C5_BadAPIFailsBeforeIO ==
    \A p \in Procs :
        /\ AddWithBadAPI(p) =>
              /\ pc[p] = "exited"
              /\ exitCode[p] # 0
              /\ callsOf(p) = <<>>
              /\ conf[p] = NoConf
              /\ out[p] = <<>>
              /\ disk = before[p]
        /\ AddWithoutAPI(p) => (pc[p] = "exited" => callsOf(p) # <<>>)

\* An add stopped for its API alone, and an add with an empty API that went
\* through.
C5_Witness ==
    \E p \in Procs :
        /\ AddWithBadAPI(p)
        /\ Len(ArgsTail(args[p])) = 5
        /\ isValidAlias(ArgsTail(args[p])[1])
        /\ isValidHostURL(ArgsTail(args[p])[2])
        /\ isValidAccessKey(ArgsTail(args[p])[3])
        /\ isValidSecretKey(ArgsTail(args[p])[4])
        /\ verbOf(prev[p].args) = "add"
        /\ Len(ArgsTail(prev[p].args)) = 5
        /\ ArgsTail(prev[p].args)[5] = ""

-----------------------------------------------------------------------------
(* C6 *)

\* What the claim calls a command line that validation must stop.
Rejectable(a) ==
    \/ Len(a) = 0
    \/ verbOf(a) \notin {"add", "remove", "list"}
    \/ /\ verbOf(a) = "add"
       /\ \/ Len(ArgsTail(a)) < 4
          \/ Len(ArgsTail(a)) > 5
          \/ ~isValidAlias(ArgsTail(a)[1])
          \/ ~isValidHostURL(ArgsTail(a)[2])
          \/ ~isValidAccessKey(ArgsTail(a)[3])
          \/ ~isValidSecretKey(ArgsTail(a)[4])
    \/ /\ verbOf(a) = "remove"
       /\ \/ Len(ArgsTail(a)) # 1
          \/ ~isValidAlias(ArgsTail(a)[1])

\* C6: an invocation with no verb or an unknown one, an add with fewer than
\* 4 or more than 5 arguments, a remove without exactly 1, or an ill-formed
\* alias, URL, access key or secret key ends with a non-zero status having
\* neither loaded nor saved, the file as it found it; so whatever loads or
\* saves has passed validation.
C6_ValidationGatesEverything ==
    \A p \in Procs :
        /\ (pc[p] # "idle" /\ Rejectable(args[p])) =>
              /\ pc[p] = "exited"
              /\ exitCode[p] # 0
              /\ callsOf(p) = <<>>
              /\ conf[p] = NoConf
              /\ out[p] = <<>>
              /\ disk = before[p]
        /\ (callsOf(p) # <<>> \/ out[p] # <<>>) => ~Rejectable(args[p])

\* An add of the right arity stopped for one ill-formed field.
C6_Witness ==
    \E p \in Procs :
        /\ pc[p] = "exited"
        /\ verbOf(args[p]) = "add"
        /\ Len(ArgsTail(args[p])) = 4
        /\ isValidAlias(ArgsTail(args[p])[1])
        /\ isValidHostURL(ArgsTail(args[p])[2])
        /\ isValidAccessKey(ArgsTail(args[p])[3])
        /\ ~isValidSecretKey(ArgsTail(args[p])[4])
        /\ DOMAIN disk.doc.Hosts # {}

-----------------------------------------------------------------------------
(* C7 *)

\* C7: a list never calls save, and at every point of it, ended well or
\* not, the file equals the file it found.
C7_ListWritesNothing ==
    \A p \in Procs :
        (pc[p] # "idle" /\ verbOf(args[p]) = "list") =>
            /\ \A i \in 1..Len(callsOf(p)) : callsOf(p)[i].fn # "save"
            /\ disk = before[p]

\* A list that loaded the file once and printed two entries or more.
C7_Witness ==
    \E p \in Procs :
        /\ ListDone(p)
        /\ Len(out[p]) >= 2
        /\ callsOf(p) = <<[proc |-> p, fn |-> "load", ok |-> TRUE]>>

-----------------------------------------------------------------------------
(* C8 *)

FailedLoad(p) == \E i \in 1..Len(callsOf(p)) : callsOf(p)[i] = [proc |-> p, fn |-> "load", ok |-> FALSE]

FailedSave(p) == \E i \in 1..Len(callsOf(p)) : callsOf(p)[i] = [proc |-> p, fn |-> "save", ok |-> FALSE]

\* C8: a failed load ends add, remove and list with a non-zero status, no
\* save attempted, no message printed, the file as found; a failed save ends
\* add and remove with a non-zero status and no message printed; so an add
\* or remove that printed its message has loaded and saved successfully.
C8_FailFast ==
    \A p \in Procs :
        /\ FailedLoad(p) =>
              /\ pc[p] = "exited"
              /\ exitCode[p] # 0
              /\ callsOf(p) = <<[proc |-> p, fn |-> "load", ok |-> FALSE]>>
              /\ out[p] = <<>>
              /\ disk = before[p]
        /\ FailedSave(p) =>
              /\ pc[p] = "exited"
              /\ exitCode[p] # 0
              /\ out[p] = <<>>
        /\ (out[p] # <<>> /\ verbOf(args[p]) \in {"add", "remove"}) =>
              callsOf(p) = <<[proc |-> p, fn |-> "load", ok |-> TRUE],
                             [proc |-> p, fn |-> "save", ok |-> TRUE]>>

\* An add stopped by a failed save that damaged a file holding entries.
C8_Witness ==
    \E p \in Procs :
        /\ FailedSave(p)
        /\ verbOf(args[p]) = "add"
        /\ ~disk.intact
        /\ DOMAIN disk.doc.Hosts # {}

-----------------------------------------------------------------------------
(* C9 *)

\* Invocation p is an add or a remove whose save has succeeded.
Saved(p) ==
    /\ verbOf(args[p]) \in {"add", "remove"}
    /\ pc[p] \in {"addHostPrint", "removeHostPrint", "done"}

\* C9: a successful add or remove of an alias leaves every other alias as it
\* was (present or absent, with the same record) and the Version as it was;
\* and a remove right after an add of the same alias, which the document did
\* not hold before the add, leaves the document as it was before the add.
C9_OnlyTheAliasChanges ==
    \A p \in Procs :
        /\ Saved(p) =>
              /\ disk.doc.Version = before[p].doc.Version
              /\ \A k \in (DOMAIN disk.doc.Hosts \cup DOMAIN before[p].doc.Hosts)
                          \ {aliasOfArgs(args[p])} :
                      /\ k \in DOMAIN disk.doc.Hosts
                      /\ k \in DOMAIN before[p].doc.Hosts
                      /\ disk.doc.Hosts[k] = before[p].doc.Hosts[k]
              /\ verbOf(args[p]) = "add" =>
                    /\ aliasOfArgs(args[p]) \in DOMAIN disk.doc.Hosts
                    /\ disk.doc.Hosts[aliasOfArgs(args[p])] = hostCfgOfArgs(args[p])
              /\ verbOf(args[p]) = "remove" =>
                    aliasOfArgs(args[p]) \notin DOMAIN disk.doc.Hosts
        /\ ( /\ Saved(p)
             /\ verbOf(args[p]) = "remove"
             /\ verbOf(prev[p].args) = "add"
             /\ aliasOfArgs(prev[p].args) = aliasOfArgs(args[p])
             /\ aliasOfArgs(args[p]) \notin DOMAIN prev[p].before.doc.Hosts )
           => disk = prev[p].before

\* A remove that undid the add before it, in a document holding two others.
C9_Witness ==
    \E p \in Procs :
        /\ pc[p] = "done"
        /\ verbOf(args[p]) = "remove"
        /\ verbOf(prev[p].args) = "add"
        /\ aliasOfArgs(prev[p].args) = aliasOfArgs(args[p])
        /\ aliasOfArgs(args[p]) \notin DOMAIN prev[p].before.doc.Hosts
        /\ Cardinality(DOMAIN prev[p].before.doc.Hosts) = 2

-----------------------------------------------------------------------------
(* C10 *)

\* The document holds what command line a asked for.
Shows(doc, a) ==
    IF verbOf(a) = "add"
    THEN /\ aliasOfArgs(a) \in DOMAIN doc.Hosts
         /\ doc.Hosts[aliasOfArgs(a)] = hostCfgOfArgs(a)
    ELSE aliasOfArgs(a) \notin DOMAIN doc.Hosts

\* p and q, changing different aliases, both ended well after load p,
\* load q, save p, save q.
LostUpdateRun(p, q) ==
    /\ p # q
    /\ pc[p] = "done"
    /\ pc[q] = "done"
    /\ verbOf(args[p]) \in {"add", "remove"}
    /\ verbOf(args[q]) \in {"add", "remove"}
    /\ aliasOfArgs(args[p]) # aliasOfArgs(args[q])
    /\ calls = <<[proc |-> p, fn |-> "load", ok |-> TRUE],
                 [proc |-> q, fn |-> "load", ok |-> TRUE],
                 [proc |-> p, fn |-> "save", ok |-> TRUE],
                 [proc |-> q, fn |-> "save", ok |-> TRUE]>>

\* C10: nothing orders two invocations on the same file: when they change
\* different aliases and run load p, load q, save p, save q, both print their
\* success message and end with status 0, and the file is the document q
\* loaded with q's change alone: it shows p's change only if the document
\* showed it before either ran.
C10_LostUpdate ==
    \A p, q \in Procs :
        LostUpdateRun(p, q) =>
            /\ exitCode[p] = 0
            /\ exitCode[q] = 0
            /\ Len(out[p]) = 1
            /\ Len(out[q]) = 1
            /\ out[p][1].op = verbOf(args[p])
            /\ out[q][1].op = verbOf(args[q])
            /\ disk.doc = conf[q]
            /\ Shows(disk.doc, args[q])
            /\ Shows(disk.doc, args[p]) <=> Shows(before[p].doc, args[p])

\* Two adds of different aliases, both reported done, one of them missing
\* from the file.
C10_Witness ==
    \E p, q \in Procs :
        /\ LostUpdateRun(p, q)
        /\ verbOf(args[p]) = "add"
        /\ verbOf(args[q]) = "add"
        /\ ~Shows(disk.doc, args[p])
        /\ aliasOfArgs(args[p]) \notin DOMAIN disk.doc.Hosts

====
